---- MODULE Spec2Model ----
(***************************************************************************)
(* Model of the TRON sweep service of src/app.py: the module-level         *)
(* start-up (construction of TronSweepBot and its permission validation),  *)
(* the two trigger handlers (webhook_trx_received, manual_sweep), the      *)
(* sweep engine (sweep_trx and its helpers) and the ledger they talk to.   *)
(*                                                                         *)
(* Strings the code inspects character by character (the Authorization     *)
(* header, the shared secret) are sequences of one-character strings.      *)
(* An address is the record of what the code looks at: its first           *)
(* character, its length and its identity; the empty value (None or '')    *)
(* has length 0.                                                           *)
(***************************************************************************)
EXTENDS Integers, Sequences, FiniteSets

(* ------------------------------------------------------------------ *)
(* Bounds of the model                                                 *)
(* ------------------------------------------------------------------ *)
NumTriggers == 2
MaxDeposits == 1
MaxBal == 5
MaxResidual == 2
MaxMargin == 2
MaxSpaces == 2

(* ------------------------------------------------------------------ *)
(* Configuration read from the environment (src/app.py:26-37)          *)
(* ------------------------------------------------------------------ *)
RESIDUAL_AMOUNT_SUN == 1000000
FEE_MARGIN_SUN == 1100000
PERMISSION_ID == 3

Addr(first, len, id) == [first |-> first, len |-> len, id |-> id]
NoAddr == Addr("", 0, "")
BotAddr == Addr("T", 34, "bot")
TargetAddr == Addr("T", 34, "target")
CollectionAddr == Addr("T", 34, "collection")
OtherAddr == Addr("T", 34, "other")
ShortTargetAddr == Addr("T", 33, "target")
BadCollectionAddr == Addr("X", 34, "collection")

\* A private key is the hex string of the environment: what matters of it is
\* that it is set and the address PrivateKey derives from it.
NoKey == [hex_len |-> 0, address |-> NoAddr]
BotKey == [hex_len |-> 64, address |-> BotAddr]

NoSecret == << >>
Secret == <<"s", "3">>
SpacedSecret == <<"s", " ", "3">>

Env(key, target, collection, secret) ==
    [BOT_PRIVATE_KEY |-> key, TARGET_ACCOUNT |-> target,
     COLLECTION_ADDRESS |-> collection, WEBHOOK_SECRET |-> secret]

\* The deployments explored: delegated control, direct ownership, and each
\* way a required value can be missing or malformed.
Environments ==
    { Env(BotKey, TargetAddr, CollectionAddr, Secret),
      Env(BotKey, BotAddr, CollectionAddr, Secret),
      Env(NoKey, TargetAddr, CollectionAddr, Secret),
      Env(BotKey, NoAddr, CollectionAddr, Secret),
      Env(BotKey, TargetAddr, NoAddr, Secret),
      Env(BotKey, TargetAddr, CollectionAddr, NoSecret),
      Env(BotKey, ShortTargetAddr, CollectionAddr, Secret),
      Env(BotKey, TargetAddr, BadCollectionAddr, Secret) }

\* Python truthiness of a configuration value: set and not empty.
TruthyAddr(a) == a.len > 0
TruthyKey(k) == k.hex_len > 0
TruthySecret(s) == Len(s) > 0

(* ------------------------------------------------------------------ *)
(* The ledger's view of the monitored account                          *)
(* ------------------------------------------------------------------ *)
Perm(id, keys) == [id |-> id, keys |-> keys]
Key(address) == [address |-> address]

\* active_permission lists a monitored account can carry.
PermissionLists ==
    { << Perm(2, <<Key(BotAddr)>>) >>,
      << Perm(2, <<Key(BotAddr)>>), Perm(PERMISSION_ID, <<Key(OtherAddr)>>) >>,
      << Perm(2, <<Key(OtherAddr)>>), Perm(PERMISSION_ID, <<Key(OtherAddr), Key(BotAddr)>>) >> }

\* The account starts below residual + fee margin; a deposit lifts it above.
InitialBalances == {1500000}
DepositAmounts == {48500000}

VARIABLES
    env,        \* the environment variables read at import
    tron,       \* TRUE when the module-level Tron client was created
    account,    \* ledger state of the monitored account
    boot_reply, \* what the ledger answers a get_account made at start-up
    booted,     \* TRUE once the module-level initialisation has run
    bot,        \* {} (None) or the singleton of the constructed TronSweepBot
    log,        \* messages logged by the start-up, in order
    lookups,    \* get_account calls made by the permission validation
    req,        \* per trigger: the request and the handler's position
    deposits,   \* deposits received by the monitored account
    arg,        \* input of the function under study (function specifications)
    ret         \* its result

vars == <<env, tron, account, boot_reply, booted, bot, log, lookups, req, deposits, arg, ret>>

(* ------------------------------------------------------------------ *)
(* TronSweepBot._validate_account_permissions                          *)
(* ------------------------------------------------------------------ *)
\* Index of the first permission of the list whose id is the configured one,
\* 0 when there is none (the for loop of line 111 with its break).
RECURSIVE FirstPermission(_, _)
FirstPermission(perms, i) ==
    IF i > Len(perms) THEN 0
    ELSE IF perms[i].id = PERMISSION_ID THEN i
    ELSE FirstPermission(perms, i + 1)

\* The inner loop of line 118: some key of the permission is the bot's address.
KeyListed(keys, address) == \E k \in 1..Len(keys) : keys[k].address = address

\* The result of the validation: the messages it logs, the lookups it makes
\* and whether it raises. `reply` is what get_account answers: "raise" or "ok".
Validation(msgs, n, raised) == [log |-> msgs, lookups |-> n, raised |-> raised]

FallbackWarnings == <<"using custom permission", "could not verify bot authorization">>

\* Mutant: a permission that does not list the bot's key is fatal.
ValidateLookupStrict(bot_address, perms) ==
    LET i == FirstPermission(perms, 1) IN
    IF i = 0
    THEN Validation(<<"permission not found", "could not verify permissions via API">>
                        \o FallbackWarnings, 1, FALSE)
    ELSE IF KeyListed(perms[i].keys, bot_address)
    THEN Validation(<<"bot key found in permission">>, 1, FALSE)
    ELSE Validation(<<"bot key not found in permission">>, 1, TRUE)

ValidateLookup(bot_address, perms) ==
    LET i == FirstPermission(perms, 1) IN
    IF i = 0
    THEN \* line 127-128: the ValueError is raised inside the inner try and
         \* caught by the except Exception of line 130
         Validation(<<"permission not found", "could not verify permissions via API">>
                        \o FallbackWarnings, 1, FALSE)
    ELSE IF KeyListed(perms[i].keys, bot_address)
    THEN Validation(<<"bot key found in permission">>, 1, FALSE)
    ELSE Validation(<<"bot key not found in permission">> \o FallbackWarnings, 1, FALSE)

\* Mutant: the account is looked up before the ownership test.
validate_lookup_first(e, bot_address, client, perms, reply) ==
    IF client /\ TruthyAddr(e.TARGET_ACCOUNT)
    THEN IF reply = "raise"
         THEN Validation(<<"could not verify permissions via API">> \o FallbackWarnings,
                         1, FALSE)
         ELSE IF e.TARGET_ACCOUNT = bot_address
         THEN Validation(<<"bot owns the target account">>, 1, FALSE)
         ELSE ValidateLookup(bot_address, perms)
    ELSE IF e.TARGET_ACCOUNT = bot_address
    THEN Validation(<<"bot owns the target account">>, 0, FALSE)
    ELSE Validation(FallbackWarnings, 0, FALSE)

\* Mutant: an unreachable ledger is fatal to the validation.
validate_unreachable_fatal(e, bot_address, client, perms, reply) ==
    IF e.TARGET_ACCOUNT = bot_address
    THEN Validation(<<"bot owns the target account">>, 0, FALSE)
    ELSE IF client /\ TruthyAddr(e.TARGET_ACCOUNT)
    THEN IF reply = "raise"
         THEN Validation(<<"could not verify permissions via API">>, 1, TRUE)
         ELSE ValidateLookup(bot_address, perms)
    ELSE Validation(<<"ledger client not initialised">>, 0, TRUE)

validate_account_permissions(e, bot_address, client, perms, reply) ==
    IF e.TARGET_ACCOUNT = bot_address
    THEN Validation(<<"bot owns the target account">>, 0, FALSE)
    ELSE IF client /\ TruthyAddr(e.TARGET_ACCOUNT)
    THEN IF reply = "raise"
         THEN Validation(<<"could not verify permissions via API">> \o FallbackWarnings,
                         1, FALSE)
         ELSE ValidateLookup(bot_address, perms)
    ELSE Validation(FallbackWarnings, 0, FALSE)

(* ------------------------------------------------------------------ *)
(* TronSweepBot.__init__ and the module-level construction             *)
(* ------------------------------------------------------------------ *)
\* Mutant: the length of an address is not checked.
ValidAddressAnyLength(a) == TruthyAddr(a) /\ a.first = "T"

ValidAddress(a) == TruthyAddr(a) /\ a.first = "T" /\ a.len = 34

\* The construction: the bot object when it succeeds, the ValueError it
\* raises otherwise, with the messages logged and the lookups made.
Construction(obj, msgs, n) == [bot |-> obj, log |-> msgs, lookups |-> n]

TronSweepBotInit(e, client, perms, reply) ==
    IF ~ (TruthyKey(e.BOT_PRIVATE_KEY) /\ TruthyAddr(e.TARGET_ACCOUNT)
          /\ TruthyAddr(e.COLLECTION_ADDRESS) /\ TruthySecret(e.WEBHOOK_SECRET))
    THEN Construction({}, <<"missing required environment variables">>, 0)
    ELSE IF ~ ValidAddress(e.COLLECTION_ADDRESS)
    THEN Construction({}, <<"invalid COLLECTION_ADDRESS format">>, 0)
    ELSE IF ~ ValidAddress(e.TARGET_ACCOUNT)
    THEN Construction({}, <<"invalid TARGET_ACCOUNT format">>, 0)
    ELSE LET bot_address == e.BOT_PRIVATE_KEY.address
             v == validate_account_permissions(e, bot_address, client, perms, reply)
         IN  IF v.raised
             THEN Construction({}, v.log \o <<"cannot validate account control">>, v.lookups)
             ELSE Construction({[bot_key |-> e.BOT_PRIVATE_KEY, bot_address |-> bot_address]},
                               v.log \o <<"bot initialized">>, v.lookups)

(* ------------------------------------------------------------------ *)
(* TronSweepBot.authenticate_webhook                                   *)
(* ------------------------------------------------------------------ *)
Header(present, value) == [present |-> present, value |-> value]
NoHeader == Header(FALSE, << >>)

\* str.lower() on the characters the headers are made of.
LowerChar(c) ==
    CASE c = "B" -> "b"
      [] c = "E" -> "e"
      [] c = "A" -> "a"
      [] c = "R" -> "r"
      [] OTHER -> c

Lower(s) == [i \in 1..Len(s) |-> LowerChar(s[i])]

\* Position of the first space of s at or after i, 0 when there is none.
RECURSIVE FirstSpace(_, _)
FirstSpace(s, i) ==
    IF i > Len(s) THEN 0
    ELSE IF s[i] = " " THEN i
    ELSE FirstSpace(s, i + 1)

\* auth_header.split(' ', 1): the parts around the first space; one part only
\* when there is no space, and then the unpacking raises ValueError.
SplitOnce(s) ==
    LET k == FirstSpace(s, 1) IN
    IF k = 0 THEN <<s>>
    ELSE <<SubSeq(s, 1, k - 1), SubSeq(s, k + 1, Len(s))>>

\* Mutant: the scheme is compared in its letter case.
authenticate_case_sensitive(auth_header, secret) ==
    IF ~ auth_header.present \/ Len(auth_header.value) = 0 THEN FALSE
    ELSE LET parts == SplitOnce(auth_header.value) IN
         IF Len(parts) /= 2 THEN FALSE
         ELSE IF parts[1] /= <<"B", "e", "a", "r", "e", "r">> THEN FALSE
         ELSE parts[2] = secret

\* Mutant: the token is not compared with the secret.
authenticate_any_token(auth_header, secret) ==
    IF ~ auth_header.present \/ Len(auth_header.value) = 0 THEN FALSE
    ELSE LET parts == SplitOnce(auth_header.value) IN
         IF Len(parts) /= 2 THEN FALSE
         ELSE Lower(parts[1]) = <<"b", "e", "a", "r", "e", "r">>

authenticate_webhook(auth_header, secret) ==
    IF ~ auth_header.present \/ Len(auth_header.value) = 0 THEN FALSE
    ELSE LET parts == SplitOnce(auth_header.value) IN
         IF Len(parts) /= 2 THEN FALSE
         ELSE IF Lower(parts[1]) /= <<"b", "e", "a", "r", "e", "r">> THEN FALSE
         ELSE parts[2] = secret

(* ------------------------------------------------------------------ *)
(* TronSweepBot.calculate_sweep_amount_sun                             *)
(* ------------------------------------------------------------------ *)
Max(a, b) == IF a >= b THEN a ELSE b

\* Mutant: the result is not clamped at 0.
calculate_unclamped(current_balance_sun, residual, fee_margin) ==
    current_balance_sun - residual - fee_margin

\* Mutant: half of what could be swept is swept.
calculate_half_sweep(current_balance_sun, residual, fee_margin) ==
    Max(0, (current_balance_sun - residual - fee_margin) \div 2)

calculate_sweep_amount_sun(current_balance_sun, residual, fee_margin) ==
    Max(0, current_balance_sun - residual - fee_margin)

(* ------------------------------------------------------------------ *)
(* The ledger collaborator                                             *)
(* ------------------------------------------------------------------ *)
\* What txn.broadcast() can hand back: it raises, returns nothing, or returns
\* a dictionary holding some of the keys result, message and txid.
Reply(raises, present, keys, result, message, txid) ==
    [raises |-> raises, present |-> present, keys |-> keys,
     result |-> result, message |-> message, txid |-> txid]

BroadcastReplies ==
    { Reply(TRUE, FALSE, {}, FALSE, "", ""),
      Reply(FALSE, FALSE, {}, FALSE, "", ""),
      Reply(FALSE, TRUE, {"code", "message"}, FALSE, "contract validate error", ""),
      Reply(FALSE, TRUE, {"result", "message"}, FALSE, "bandwidth insufficient", ""),
      Reply(FALSE, TRUE, {"result"}, FALSE, "", ""),
      Reply(FALSE, TRUE, {"result"}, TRUE, "", ""),
      Reply(FALSE, TRUE, {"result", "txid"}, TRUE, "", "abc123") }

\* The ledger took the transfer: the reply carries a true result.
Accepted(r) == ~ r.raises /\ r.present /\ "result" \in r.keys /\ r.result

\* The ledger enforces the permission the transfer is tagged with (line 186):
\* the signer's address must be a key of that permission of the account.
LedgerAuthorizes(perms, signer) ==
    \E i \in 1..Len(perms) :
        perms[i].id = PERMISSION_ID /\ KeyListed(perms[i].keys, signer)

\* The ledger accepts a transfer only from an authorised signer and only of
\* what the account holds.
LedgerCanAccept(acct, signer, amount_sun) ==
    LedgerAuthorizes(acct.active_permission, signer) /\ amount_sun <= acct.balance

(* ------------------------------------------------------------------ *)
(* Triggers: webhook_trx_received and manual_sweep                     *)
(* ------------------------------------------------------------------ *)
Trig == 1..NumTriggers
\* A request: the route it is sent to and the kind of body it carries.
Requests ==
    { [endpoint |-> "webhook", body |-> "json"],
      [endpoint |-> "webhook", body |-> "malformed"],
      [endpoint |-> "manual", body |-> "none"] }

\* Authorization headers sent by callers.
TriggerHeaders ==
    { NoHeader,
      Header(TRUE, <<"B", "e", "a", "r", "e", "r", " ">> \o Secret),
      Header(TRUE, <<"B", "e", "a", "r", "e", "r", " ", "x">>) }

\* The HTTP status and the JSON body of a response. remaining_balance is the
\* configured residual (the code reports it in TRX, here it is in SUN).
Response(code, status, message, error, tx_id, amount, remaining) ==
    [code |-> code, status |-> status, message |-> message, error |-> error,
     tx_id |-> tx_id, amount_swept_sun |-> amount, remaining_balance |-> remaining]
NoResponse == Response(0, "", "", "", "", 0, 0)
ErrorResponse(code, error) == Response(code, "", "", error, "", 0, 0)
NoActionResponse == Response(200, "no_action", "Insufficient balance to sweep", "", "", 0, 0)

\* Before txn.broadcast() has answered, the trigger holds no result.
NoResult == Reply(FALSE, FALSE, {}, FALSE, "", "")

IdleRequest ==
    [pc |-> "idle", endpoint |-> "", header |-> NoHeader, body |-> "",
     current_balance_sun |-> -1, sweep_amount_sun |-> -1,
     reads |-> 0, builds |-> 0, broadcasts |-> 0, result |-> NoResult,
     exception |-> "", response |-> NoResponse]

\* The handler returns: the trigger is over with this response.
Return(r, response) == [r EXCEPT !.pc = "done", !.response = response]

\* Mutant: the exception leaves the handler and no response is produced.
RaiseEscapes(r, message) == [r EXCEPT !.pc = "crashed", !.exception = message]

\* An exception reaches the except clause of the handler (lines 299, 323).
Raise(r, message) ==
    [r EXCEPT !.pc = "done", !.exception = message,
              !.response = ErrorResponse(500, "Internal server error")]

\* request.get_json() of line 291: only the webhook parses the body.
BodyRaises(endpoint, body) == endpoint = "webhook" /\ body = "malformed"

\* Mutant: the handler does not authenticate the request.
HandleUnauthenticated(r, endpoint, auth_header, body) ==
    LET q == [r EXCEPT !.endpoint = endpoint, !.header = auth_header, !.body = body] IN
    IF bot = {} THEN Return(q, ErrorResponse(503, "Bot not configured"))
    ELSE IF BodyRaises(endpoint, body) THEN Raise(q, "bad request body")
    ELSE IF ~ tron THEN Raise(q, "Tron client not initialized")
    ELSE [q EXCEPT !.pc = "get_account"]

\* The handler from its entry to its first call of the ledger.
Handle(r, endpoint, auth_header, body) ==
    LET q == [r EXCEPT !.endpoint = endpoint, !.header = auth_header, !.body = body] IN
    IF bot = {} THEN Return(q, ErrorResponse(503, "Bot not configured"))
    ELSE IF ~ authenticate_webhook(auth_header, env.WEBHOOK_SECRET)
    THEN Return(q, ErrorResponse(401, "Unauthorized"))
    ELSE IF BodyRaises(endpoint, body) THEN Raise(q, "bad request body")
    ELSE IF ~ tron THEN Raise(q, "Tron client not initialized")
    ELSE [q EXCEPT !.pc = "get_account"]

\* Mutant: an amount of 0 is taken for something to sweep.
NoSweepNeededStrict(sweep_amount_sun) == sweep_amount_sun < 0

\* line 209: nothing to sweep.
NoSweepNeeded(sweep_amount_sun) == sweep_amount_sun <= 0

\* Mutant: the balance of an earlier trigger is used when there is one.
AfterBalanceCached(r, balance_sun) ==
    LET seen == {req[u].current_balance_sun : u \in Trig} \ {-1}
        cached == IF seen = {} THEN balance_sun ELSE CHOOSE b \in seen : TRUE
        amount == calculate_sweep_amount_sun(cached, RESIDUAL_AMOUNT_SUN, FEE_MARGIN_SUN)
        q == [r EXCEPT !.current_balance_sun = cached, !.sweep_amount_sun = amount,
                       !.reads = @ + 1]
    IN  IF NoSweepNeeded(amount)
        THEN Return(q, NoActionResponse)
        ELSE IF amount <= 0 THEN Raise(q, "Invalid transfer amount")
        ELSE IF ~ TruthyAddr(env.TARGET_ACCOUNT) THEN Raise(q, "TARGET_ACCOUNT not configured")
        ELSE [q EXCEPT !.pc = "build"]

\* sweep_trx after get_account answered with the balance, up to the build.
AfterBalance(r, balance_sun) ==
    LET amount == calculate_sweep_amount_sun(balance_sun, RESIDUAL_AMOUNT_SUN, FEE_MARGIN_SUN)
        q == [r EXCEPT !.current_balance_sun = balance_sun, !.sweep_amount_sun = amount,
                       !.reads = @ + 1]
    IN  IF NoSweepNeeded(amount)
        THEN Return(q, NoActionResponse)
        ELSE IF amount <= 0 THEN Raise(q, "Invalid transfer amount")
        ELSE IF ~ TruthyAddr(env.TARGET_ACCOUNT) THEN Raise(q, "TARGET_ACCOUNT not configured")
        ELSE [q EXCEPT !.pc = "build"]

\* Mutant: a refused submission is submitted once more.
AfterBroadcastRetry(r, reply) ==
    IF reply.raises THEN Raise(r, "broadcast raised")
    ELSE IF ~ reply.present \/ "result" \notin reply.keys \/ ~ reply.result
    THEN IF r.broadcasts < 2
         THEN [r EXCEPT !.pc = "broadcast"]
         ELSE Raise(r, "Broadcast failed: Unknown broadcast error")
    ELSE IF "txid" \notin reply.keys \/ reply.txid = ""
    THEN Raise(r, "No transaction ID received")
    ELSE Return(r, Response(200, "success", "", "", reply.txid, r.sweep_amount_sun,
                            RESIDUAL_AMOUNT_SUN))

\* sweep_trx after txn.broadcast() returned or raised (lines 218-242).
AfterBroadcast(r, reply) ==
    IF reply.raises THEN Raise(r, "broadcast raised")
    ELSE IF ~ reply.present THEN Raise(r, "Broadcast failed: No result from broadcast")
    ELSE IF reply.keys = {} THEN Raise(r, "Broadcast failed: No result from broadcast")
    ELSE IF "result" \notin reply.keys \/ ~ reply.result
    THEN Raise(r, IF "message" \in reply.keys
                  THEN "Broadcast failed: " \o reply.message
                  ELSE "Broadcast failed: Unknown broadcast error")
    ELSE IF "txid" \notin reply.keys \/ reply.txid = ""
    THEN Raise(r, "No transaction ID received")
    ELSE Return(r, Response(200, "success", "", "", reply.txid, r.sweep_amount_sun,
                            RESIDUAL_AMOUNT_SUN))

(* ------------------------------------------------------------------ *)
(* Actions                                                             *)
(* ------------------------------------------------------------------ *)
NoArg == [none |-> TRUE]
NoRet == {}

TypeInit ==
    /\ env \in Environments
    /\ tron \in BOOLEAN
    /\ account \in [balance : InitialBalances, active_permission : PermissionLists]
    /\ boot_reply \in {"raise", "ok"}

Init ==
    /\ TypeInit
    /\ booted = FALSE
    /\ bot = {}
    /\ log = << >>
    /\ lookups = 0
    /\ req = [t \in Trig |-> IdleRequest]
    /\ deposits = 0
    /\ arg = NoArg
    /\ ret = NoRet

\* Lines 249-255: the module builds the bot once, before any request.
Startup ==
    /\ ~ booted
    /\ LET c == TronSweepBotInit(env, tron, account.active_permission, boot_reply) IN
         /\ bot' = c.bot
         /\ log' = IF c.bot = {} THEN c.log \o <<"bot not initialized">>
                    ELSE c.log \o <<"initialized successfully">>
         /\ lookups' = c.lookups
    /\ booted' = TRUE
    /\ UNCHANGED <<env, tron, account, boot_reply, req, deposits, arg, ret>>

\* A request arrives at one of the two routes; triggers are numbered in the
\* order of their arrival.
Receive(t) ==
    /\ booted
    /\ req[t].pc = "idle"
    /\ \A u \in Trig : u < t => req[u].pc /= "idle"
    /\ \E r \in Requests, h \in TriggerHeaders :
         req' = [req EXCEPT ![t] = Handle(req[t], r.endpoint, h, r.body)]
    /\ UNCHANGED <<env, tron, account, boot_reply, booted, bot, log, lookups, deposits, arg, ret>>

\* tron.get_account of line 160 answers or raises.
GetAccount(t) ==
    /\ req[t].pc = "get_account"
    /\ \E reply \in {"raise", "ok"} :
         req' = [req EXCEPT ![t] =
                    IF reply = "raise"
                    THEN Raise([req[t] EXCEPT !.reads = @ + 1], "get_account raised")
                    ELSE AfterBalance(req[t], account.balance)]
    /\ UNCHANGED <<env, tron, account, boot_reply, booted, bot, log, lookups, deposits, arg, ret>>

\* Lines 184-191: the transfer is built by the node and signed.
Build(t) ==
    /\ req[t].pc = "build"
    /\ \E reply \in {"raise", "ok"} :
         req' = [req EXCEPT ![t] =
                    IF reply = "raise"
                    THEN Raise([req[t] EXCEPT !.builds = @ + 1], "build raised")
                    ELSE [req[t] EXCEPT !.pc = "broadcast", !.builds = @ + 1]]
    /\ UNCHANGED <<env, tron, account, boot_reply, booted, bot, log, lookups, deposits, arg, ret>>

\* Line 218: the ledger receives the signed transfer and answers.
Broadcast(t) ==
    /\ req[t].pc = "broadcast"
    /\ \E reply \in BroadcastReplies :
         LET signer == (CHOOSE b \in bot : TRUE).bot_address
             amount == req[t].sweep_amount_sun
             q == [req[t] EXCEPT !.broadcasts = @ + 1, !.result = reply]
         IN  /\ Accepted(reply) => LedgerCanAccept(account, signer, amount)
             /\ account' = IF Accepted(reply)
                           THEN [account EXCEPT !.balance = @ - amount]
                           ELSE account
             /\ req' = [req EXCEPT ![t] = AfterBroadcast(q, reply)]
    /\ UNCHANGED <<env, tron, boot_reply, booted, bot, log, lookups, deposits, arg, ret>>

\* Someone pays into the monitored account.
Deposit ==
    /\ deposits < MaxDeposits
    /\ \E d \in DepositAmounts : account' = [account EXCEPT !.balance = @ + d]
    /\ deposits' = deposits + 1
    /\ UNCHANGED <<env, tron, boot_reply, booted, bot, log, lookups, req, arg, ret>>

Next ==
    \/ Startup
    \/ \E t \in Trig : Receive(t)
    \/ \E t \in Trig : GetAccount(t)
    \/ \E t \in Trig : Build(t)
    \/ \E t \in Trig : Broadcast(t)
    \/ Deposit

Spec == Init /\ [][Next]_vars

(* ------------------------------------------------------------------ *)
(* calculate_sweep_amount_sun on its own                               *)
(* ------------------------------------------------------------------ *)
\* The service's variables while a function is studied on its own.
Parked ==
    /\ env = Env(BotKey, TargetAddr, CollectionAddr, Secret)
    /\ tron = TRUE
    /\ account = [balance |-> 0, active_permission |-> << >>]
    /\ boot_reply = "ok"
    /\ booted = FALSE
    /\ bot = {}
    /\ log = << >>
    /\ lookups = 0
    /\ req = [t \in Trig |-> IdleRequest]
    /\ deposits = 0

service == <<env, tron, account, boot_reply, booted, bot, log, lookups, req, deposits>>

\* Balances and policies: every small case, and the configured defaults
\* around their threshold.
CalcInputs ==
    [b : 0..MaxBal, r : 0..MaxResidual, m : 0..MaxMargin]
    \cup [b : {1500000, 2100000, 2100001, 50000000},
          r : {RESIDUAL_AMOUNT_SUN}, m : {FEE_MARGIN_SUN}]

InitCalc ==
    /\ Parked
    /\ arg \in CalcInputs
    /\ ret = NoRet

CallCalc ==
    /\ ret = NoRet
    /\ ret' = {calculate_sweep_amount_sun(arg.b, arg.r, arg.m)}
    /\ UNCHANGED <<service, arg>>

NextCalc == CallCalc

SpecCalc == InitCalc /\ [][NextCalc]_vars

(* ------------------------------------------------------------------ *)
(* authenticate_webhook on its own                                     *)
(* ------------------------------------------------------------------ *)
Spaces(n) == [i \in 1..n |-> " "]

Schemes ==
    { << >>,
      <<"B", "e", "a", "r", "e", "r">>,
      <<"b", "e", "a", "r", "e", "r">>,
      <<"B", "E", "A", "R", "E", "R">>,
      <<"B", "e", "a", "r", "e">>,
      <<"B", "e", "a", "r", "e", "r", "x">>,
      <<"B", "a", "s", "i", "c">> }

Tokens ==
    { << >>, Secret, SpacedSecret, <<"x">>, Secret \o <<"x">>,
      Secret \o <<" ">>, Secret \o <<" ", "x">>, <<"S", "3">> }

AuthHeaders ==
    {NoHeader} \cup
    { Header(TRUE, Spaces(lead) \o scheme \o Spaces(n) \o token) :
        lead \in {0, 1}, scheme \in Schemes, n \in 0..MaxSpaces, token \in Tokens }

InitAuth ==
    /\ Parked
    /\ arg \in [header : AuthHeaders, secret : {Secret, SpacedSecret}]
    /\ ret = NoRet

CallAuth ==
    /\ ret = NoRet
    /\ ret' = {authenticate_webhook(arg.header, arg.secret)}
    /\ UNCHANGED <<service, arg>>

NextAuth == CallAuth

SpecAuth == InitAuth /\ [][NextAuth]_vars

(* ------------------------------------------------------------------ *)
(* The two entry points side by side                                   *)
(* ------------------------------------------------------------------ *)
\* One request is sent to both routes of the same service: trigger 1 is its
\* handling by webhook_trx_received, trigger 2 its handling by manual_sweep.
\* Both face the same ledger: every call they both make gets the same answer.
Pair == {1, 2}
Route(t) == IF t = 1 THEN "webhook" ELSE "manual"

\* What a caller can send as the body: JSON, text that request.get_json()
\* fails to parse, or no body where get_json() answers None.
Bodies == {"json", "malformed", "none"}

InitEndpoints ==
    /\ env \in Environments
    /\ tron \in BOOLEAN
    /\ account \in [balance : InitialBalances \cup {50000000},
                    active_permission : PermissionLists]
    /\ boot_reply \in {"raise", "ok"}
    /\ booted = FALSE
    /\ bot = {}
    /\ log = << >>
    /\ lookups = 0
    /\ req = [t \in Trig |-> IdleRequest]
    /\ deposits = 0
    /\ arg = NoArg
    /\ ret = NoRet

ReceiveBoth ==
    /\ booted
    /\ \A t \in Pair : req[t].pc = "idle"
    /\ \E h \in TriggerHeaders, b \in Bodies :
         req' = [t \in Trig |->
                    IF t \in Pair THEN Handle(req[t], Route(t), h, b) ELSE req[t]]
    /\ UNCHANGED <<env, tron, account, boot_reply, booted, bot, log, lookups, deposits, arg, ret>>

GetAccountBoth ==
    /\ \E t \in Pair : req[t].pc = "get_account"
    /\ \E reply \in {"raise", "ok"} :
         req' = [t \in Trig |->
                    IF t \in Pair /\ req[t].pc = "get_account"
                    THEN IF reply = "raise"
                         THEN Raise([req[t] EXCEPT !.reads = @ + 1], "get_account raised")
                         ELSE AfterBalance(req[t], account.balance)
                    ELSE req[t]]
    /\ UNCHANGED <<env, tron, account, boot_reply, booted, bot, log, lookups, deposits, arg, ret>>

BuildBoth ==
    /\ \E t \in Pair : req[t].pc = "build"
    /\ \E reply \in {"raise", "ok"} :
         req' = [t \in Trig |->
                    IF t \in Pair /\ req[t].pc = "build"
                    THEN IF reply = "raise"
                         THEN Raise([req[t] EXCEPT !.builds = @ + 1], "build raised")
                         ELSE [req[t] EXCEPT !.pc = "broadcast", !.builds = @ + 1]
                    ELSE req[t]]
    /\ UNCHANGED <<env, tron, account, boot_reply, booted, bot, log, lookups, deposits, arg, ret>>

\* The ledger each handling faces takes the transfer of that handling; the
\* account shown is the one left by the handling that submitted.
BroadcastBoth ==
    /\ \E t \in Pair : req[t].pc = "broadcast"
    /\ \E reply \in BroadcastReplies :
         LET signer == (CHOOSE b \in bot : TRUE).bot_address
             s == CHOOSE t \in Pair : req[t].pc = "broadcast"
             amount == req[s].sweep_amount_sun
         IN  /\ Accepted(reply) => LedgerCanAccept(account, signer, amount)
             /\ account' = IF Accepted(reply)
                           THEN [account EXCEPT !.balance = @ - amount]
                           ELSE account
             /\ req' = [t \in Trig |->
                           IF t \in Pair /\ req[t].pc = "broadcast"
                           THEN AfterBroadcast([req[t] EXCEPT !.broadcasts = @ + 1,
                                                              !.result = reply], reply)
                           ELSE req[t]]
    /\ UNCHANGED <<env, tron, boot_reply, booted, bot, log, lookups, deposits, arg, ret>>

NextEndpoints ==
    \/ Startup
    \/ ReceiveBoth
    \/ GetAccountBoth
    \/ BuildBoth
    \/ BroadcastBoth

SpecEndpoints == InitEndpoints /\ [][NextEndpoints]_vars

(* ================================================================== *)
(* Properties                                                          *)
(* ================================================================== *)
InLog(message) == \E i \in 1..Len(log) : log[i] = message

\* The trigger is between its balance read and the ledger's answer to its
\* submission: the section read balance -> compute amount -> submit.
InSweep(t) == req[t].pc \in {"get_account", "build", "broadcast"}

\* The trigger's signed transfer is with the ledger.
Submitting(t) == req[t].pc = "broadcast"

\* C1: two triggers handled concurrently on the same monitored account never
\* have their submissions in flight at once (their read -> compute -> submit
\* sections are serialised).
C1_AtMostOneSubmissionInFlight ==
    \A t, u \in Trig : (Submitting(t) /\ Submitting(u)) => t = u

\* C2: every transfer handed to the ledger has an amount of at most the
\* ledger balance at that moment less the residual and the fee margin.
C2_SubmittedWithinSafeMargin ==
    \A t \in Trig :
        Submitting(t) =>
            req[t].sweep_amount_sun <= account.balance - RESIDUAL_AMOUNT_SUN - FEE_MARGIN_SUN

\* The header is exactly "Bearer <secret>", the scheme in any letter case.
IsBearerOf(h, secret) ==
    /\ h.present
    /\ Len(h.value) = 7 + Len(secret)
    /\ \A i \in 1..6 : LowerChar(h.value[i]) = <<"b", "e", "a", "r", "e", "r">>[i]
    /\ h.value[7] = " "
    /\ \A j \in 1..Len(secret) : h.value[7 + j] = secret[j]

\* The address the service signs with.
ServiceAddress == env.BOT_PRIVATE_KEY.address

\* Start-up validation verified the service's authority: the service owns
\* the monitored account, or the ledger answered and lists the service's
\* address among the keys of the configured permission.
AuthorityVerified ==
    /\ bot /= {}
    /\ \/ env.TARGET_ACCOUNT = ServiceAddress
       \/ /\ tron
          /\ boot_reply = "ok"
          /\ LedgerAuthorizes(account.active_permission, ServiceAddress)

\* The trigger has had a transfer built, signed or handed to the ledger.
ReachedSubmission(t) ==
    req[t].pc \in {"build", "broadcast"} \/ req[t].builds > 0 \/ req[t].broadcasts > 0

\* C3 (as claimed): no trigger builds, signs or broadcasts a transfer unless
\* start-up validation verified the service's authority over the account.
C3_NoSubmissionWithoutVerifiedAuthority ==
    \A t \in Trig : ReachedSubmission(t) => AuthorityVerified

\* C3 (amended): a transfer is built, signed or broadcast only by a trigger
\* that carried the shared secret, on a service whose sweep engine was
\* constructed; verified authority is not required.
C3_SubmissionOnlyByAuthenticatedTrigger ==
    \A t \in Trig :
        ReachedSubmission(t) =>
            bot /= {} /\ IsBearerOf(req[t].header, env.WEBHOOK_SECRET)

\* A sweep of a service whose authority was not verified is with the ledger.
C3_Witness == \E t \in Trig : Submitting(t) /\ ~ AuthorityVerified

\* The trigger's header is absent or does not match the shared secret.
BadHeader(t) == req[t].pc /= "idle" /\ ~ IsBearerOf(req[t].header, env.WEBHOOK_SECRET)

NoLedgerUse(t) ==
    /\ req[t].reads = 0 /\ req[t].builds = 0 /\ req[t].broadcasts = 0
    /\ req[t].current_balance_sun = -1 /\ req[t].sweep_amount_sun = -1

\* C4 (as claimed): a request whose Authorization header is absent or does
\* not match the shared secret always gets the unauthorized outcome and
\* uses the ledger in no way.
C4_BadHeaderAlwaysUnauthorized ==
    \A t \in Trig :
        BadHeader(t) =>
            /\ req[t].pc = "done"
            /\ req[t].response = ErrorResponse(401, "Unauthorized")
            /\ NoLedgerUse(t)

\* C4 (amended): such a request ends at once without any use of the ledger,
\* with the unauthorized outcome when the sweep engine was constructed and
\* with the not-configured outcome when it was not.
C4_BadHeaderRejectedWithoutLedgerUse ==
    \A t \in Trig :
        BadHeader(t) =>
            /\ req[t].pc = "done"
            /\ req[t].response = IF bot = {}
                                 THEN ErrorResponse(503, "Bot not configured")
                                 ELSE ErrorResponse(401, "Unauthorized")
            /\ NoLedgerUse(t)

\* One trigger was rejected as unauthorized and another one swept.
C4_Witness ==
    \E t, u \in Trig :
        /\ BadHeader(t) /\ req[t].response.code = 401
        /\ req[u].response.status = "success"

\* C5: a transfer is built or broadcast only for a strictly positive amount;
\* an amount of 0 ends the trigger with the successful no_action outcome and
\* nothing is submitted.
C5_SubmitOnlyPositiveAmount ==
    \A t \in Trig :
        /\ ReachedSubmission(t) => req[t].sweep_amount_sun > 0
        /\ req[t].sweep_amount_sun = 0 =>
              /\ req[t].pc = "done"
              /\ req[t].response = NoActionResponse
              /\ req[t].response.code = 200
              /\ req[t].exception = ""
              /\ req[t].builds = 0 /\ req[t].broadcasts = 0

\* A trigger read a balance of exactly residual + fee margin and took no action.
C5_Witness ==
    \E t \in Trig :
        /\ req[t].current_balance_sun = RESIDUAL_AMOUNT_SUN + FEE_MARGIN_SUN
        /\ req[t].sweep_amount_sun = 0
        /\ req[t].response.status = "no_action"

\* C6: for non-negative b, r and m the sweep amount is max(0, b - r - m):
\* never negative, 0 whenever b <= r + m, and exactly b - r - m > 0 otherwise.
C6_SweepAmountIsClampedDifference ==
    \A v \in ret :
        /\ v >= 0
        /\ arg.b <= arg.r + arg.m => v = 0
        /\ arg.b > arg.r + arg.m => v > 0 /\ v + arg.r + arg.m = arg.b

\* A balance strictly below residual + margin was clamped to 0.
C6_Witness == ret = {0} /\ arg.b < arg.r + arg.m /\ arg.b > 0

\* C7: the authenticator accepts a header exactly when it is
\* "Bearer <secret>" with the scheme in any letter case; every other header
\* (absent, empty, other scheme, other token, no space, extra text) is rejected.
C7_AcceptsExactlyBearerSecret ==
    \A v \in ret : v <=> IsBearerOf(arg.header, arg.secret)

\* A header with a lower-case scheme and a secret holding a space was accepted.
C7_Witness ==
    /\ ret = {TRUE}
    /\ arg.header.value[1] = "b"
    /\ arg.secret = SpacedSecret

\* The required values are set and the addresses well formed.
ConfigValid ==
    /\ env.BOT_PRIVATE_KEY.hex_len > 0
    /\ Len(env.WEBHOOK_SECRET) > 0
    /\ env.TARGET_ACCOUNT.first = "T" /\ env.TARGET_ACCOUNT.len = 34
    /\ env.COLLECTION_ADDRESS.first = "T" /\ env.COLLECTION_ADDRESS.len = 34

\* Start-up ran with a valid configuration for an account the service does
\* not own, and the ledger answered the account lookup.
DelegatedLookupAnswered ==
    /\ booted
    /\ ConfigValid
    /\ env.TARGET_ACCOUNT /= ServiceAddress
    /\ tron
    /\ boot_reply = "ok"

PermissionPresent ==
    \E i \in 1..Len(account.active_permission) :
        account.active_permission[i].id = PERMISSION_ID

\* C8: when the configured permission ID is absent from the monitored
\* account's active permissions (service address differs, ledger reachable),
\* start-up fails: no sweep engine is constructed and no trigger is serviced.
C8_MissingPermissionFailsStartup ==
    (DelegatedLookupAnswered /\ ~ PermissionPresent) =>
        /\ bot = {}
        /\ \A t \in Trig : req[t].reads = 0

\* The permission is on the account and does not list the service's address.
PermissionWithoutServiceKey ==
    /\ DelegatedLookupAnswered
    /\ PermissionPresent
    /\ ~ LedgerAuthorizes(account.active_permission, ServiceAddress)

\* What a start-up of the same environment constructs when the ledger lists
\* the service's address in the configured permission.
VerifiedStartup ==
    TronSweepBotInit(env, TRUE, << Perm(PERMISSION_ID, <<Key(ServiceAddress)>>) >>, "ok")

\* C9 (as claimed): permission present, service key absent: start-up succeeds
\* and the service holds a state that differs from the verified one.
C9_DegradedTrustStateRecorded ==
    PermissionWithoutServiceKey =>
        /\ bot /= {}
        /\ bot /= VerifiedStartup.bot

\* C9 (amended): start-up succeeds and the degraded trust is recorded only as
\* warnings in the log; the constructed service is the one a verified
\* start-up constructs.
C9_DegradedTrustOnlyLogged ==
    PermissionWithoutServiceKey =>
        /\ bot /= {}
        /\ bot = VerifiedStartup.bot
        /\ lookups = 1
        /\ InLog("bot key not found in permission")
        /\ InLog("could not verify bot authorization")
        /\ ~ InLog("bot key found in permission")

\* Such a service started and went on to hand a transfer to the ledger.
C9_Witness ==
    /\ PermissionWithoutServiceKey
    /\ bot /= {}
    /\ \E t \in Trig : Submitting(t)

\* C10: when the monitored address is the service's own address, validation
\* succeeds without any account lookup, whatever the ledger's state.
C10_OwnerNeedsNoLookup ==
    (booted /\ ConfigValid /\ env.TARGET_ACCOUNT = ServiceAddress) =>
        /\ lookups = 0
        /\ bot /= {}
        /\ log = <<"bot owns the target account", "bot initialized",
                   "initialized successfully">>

\* The owner's service started while the ledger would not have answered.
C10_Witness ==
    /\ booted /\ bot /= {}
    /\ env.TARGET_ACCOUNT = ServiceAddress
    /\ tron /\ boot_reply = "raise"
    /\ lookups = 0

\* Sanity of the model: the log says "verified" exactly when it was.
LogAgreesWithVerification ==
    booted /\ bot /= {} =>
        (AuthorityVerified <=>
            (InLog("bot owns the target account") \/ InLog("bot key found in permission")))

\* Start-up ran with a valid configuration for an account the service does
\* not own while the ledger could not be asked: no client, or the lookup raised.
LedgerUnreachableAtStartup ==
    /\ booted
    /\ ConfigValid
    /\ env.TARGET_ACCOUNT /= ServiceAddress
    /\ ~ tron \/ boot_reply = "raise"

\* C11: when the ledger is unreachable during the start-up check (client not
\* initialised, or the account lookup raises), start-up is not blocked: the
\* sweep engine is constructed with the could-not-verify warnings logged, and
\* triggers are handled (none is refused as not configured).
C11_UnreachableLedgerDoesNotBlockStartup ==
    LedgerUnreachableAtStartup =>
        /\ bot /= {}
        /\ lookups = (IF tron THEN 1 ELSE 0)
        /\ InLog("could not verify bot authorization")
        /\ InLog("initialized successfully")
        /\ tron => InLog("could not verify permissions via API")
        /\ \A t \in Trig : req[t].pc /= "idle" => req[t].response.code /= 503

\* The start-up lookup raised, the service started, and a trigger swept.
C11_Witness ==
    /\ LedgerUnreachableAtStartup
    /\ tron /\ boot_reply = "raise" /\ lookups = 1
    /\ \E t \in Trig : req[t].response.status = "success"

\* The ledger answered the trigger's submission.
Answered(t) == req[t].broadcasts > 0

\* The answer is missing, lacks the success indicator or has it false.
SubmissionRefused(r) ==
    ~ r.raises /\ (~ r.present \/ "result" \notin r.keys \/ ~ r.result)

\* Reasons that name no ledger message: those of line 222 and the one the
\* handlers answer with (lines 301, 325).
GenericSubmissionFailures ==
    { "Broadcast failed: Unknown broadcast error",
      "Broadcast failed: No result from broadcast",
      "Unknown broadcast error", "No result from broadcast",
      "Internal server error" }

\* C12: when the ledger's answer to the submission is missing, lacks a success
\* indicator or has a false one, the outcome returned to the caller is a
\* failure whose reason is the ledger's message when there is one and a
\* generic submission-failure reason otherwise.
C12_FailureReasonReturnedToCaller ==
    \A t \in Trig :
        (Answered(t) /\ SubmissionRefused(req[t].result)) =>
            /\ req[t].pc = "done"
            /\ req[t].response.status /= "success"
            /\ req[t].response.code /= 200
            /\ IF req[t].result.present /\ "message" \in req[t].result.keys
               THEN req[t].response.error \in
                        { req[t].result.message,
                          "Broadcast failed: " \o req[t].result.message }
               ELSE req[t].response.error \in GenericSubmissionFailures

\* The answer has a true success indicator and no transaction identifier.
AcceptedWithoutIdentifier(r) ==
    Accepted(r) /\ ("txid" \notin r.keys \/ r.txid = "")

\* C13: when the ledger's answer has a true success indicator but no
\* transaction identifier, the trigger's outcome is a failure whose reason is
\* that no transaction id was returned; a success outcome is never returned
\* without a transaction identifier.
C13_MissingIdentifierReasonReturned ==
    \A t \in Trig :
        /\ (Answered(t) /\ AcceptedWithoutIdentifier(req[t].result)) =>
              /\ req[t].pc = "done"
              /\ req[t].response.status /= "success"
              /\ req[t].response.error \in
                     {"No transaction ID received", "no transaction id returned"}
        /\ req[t].response.status = "success" => req[t].response.tx_id /= ""

\* The trigger's outcome is Submitted.
Succeeded(t) == req[t].response.status = "success"

\* C14: when the ledger accepts the submission and returns an identifier, the
\* outcome is success (HTTP 200) carrying exactly that identifier, an amount
\* equal to max(0, balance - residual - fee_margin) of the balance the same
\* trigger read, and the configured residual as remaining balance; and the
\* balance a trigger holds is always the one the ledger had when it read it.
C14_SubmittedCarriesIdAndFreshAmount ==
    /\ [](\A t \in Trig :
            /\ (Answered(t) /\ Accepted(req[t].result)
                    /\ ~ AcceptedWithoutIdentifier(req[t].result)) => Succeeded(t)
            /\ Succeeded(t) =>
                  /\ req[t].pc = "done"
                  /\ req[t].response.code = 200
                  /\ Answered(t) /\ Accepted(req[t].result)
                  /\ req[t].response.tx_id = req[t].result.txid
                  /\ req[t].response.tx_id /= ""
                  /\ req[t].reads = 1 /\ req[t].broadcasts = 1
                  /\ req[t].response.amount_swept_sun =
                        Max(0, req[t].current_balance_sun
                                 - RESIDUAL_AMOUNT_SUN - FEE_MARGIN_SUN)
                  /\ req[t].response.amount_swept_sun > 0
                  /\ req[t].response.remaining_balance = RESIDUAL_AMOUNT_SUN)
    /\ [][\A t \in Trig :
            req[t].current_balance_sun' /= req[t].current_balance_sun =>
                req[t].current_balance_sun' = account.balance]_vars

\* A first trigger read 1,500,000 and took no action; after a deposit a later
\* trigger read 50,000,000 and its sweep of 47,900,000 was accepted as abc123.
C14_Witness ==
    \E t, u \in Trig :
        /\ req[t].response.status = "no_action"
        /\ req[t].current_balance_sun = 1500000
        /\ Succeeded(u)
        /\ req[u].current_balance_sun = 50000000
        /\ req[u].response.amount_swept_sun = 47900000
        /\ req[u].response.tx_id = "abc123"

\* The kinds of per-trigger error of the handlers and of sweep_trx.
TriggerErrors ==
    { "bad request body", "Tron client not initialized", "get_account raised",
      "build raised", "broadcast raised",
      "Broadcast failed: No result from broadcast",
      "Broadcast failed: Unknown broadcast error",
      "Broadcast failed: bandwidth insufficient",
      "Broadcast failed: contract validate error",
      "No transaction ID received" }

\* The outcomes a handler can answer with.
StructuredOutcome(response) ==
    \/ response = NoActionResponse
    \/ response.code = 200 /\ response.status = "success"
    \/ response \in { ErrorResponse(401, "Unauthorized"),
                      ErrorResponse(503, "Bot not configured"),
                      ErrorResponse(500, "Internal server error") }

\* C15: every per-trigger error (unreadable balance, missing ledger client,
\* build or sign failure, broadcast failure or rejection, malformed request
\* body) is caught by the handler and answered with a structured failure; a
\* trigger has no outcome while it runs and exactly one when it is over; a
\* failed trigger leaves the service as it was, so later triggers are handled.
C15_ErrorsBecomeStructuredFailures ==
    /\ [](\A t \in Trig :
            /\ req[t].pc \in {"idle", "get_account", "build", "broadcast", "done"}
            /\ req[t].pc /= "done" => req[t].response = NoResponse /\ req[t].exception = ""
            /\ req[t].pc = "done" => StructuredOutcome(req[t].response)
            /\ req[t].exception /= "" =>
                  /\ req[t].exception \in TriggerErrors
                  /\ req[t].pc = "done"
                  /\ req[t].response = ErrorResponse(500, "Internal server error"))
    /\ [][\A t \in Trig :
            (req[t].exception' /= "" /\ req[t].exception = "") =>
                /\ bot' = bot /\ env' = env /\ tron' = tron /\ booted' = booted
                /\ \A u \in Trig \ {t} : req[u]' = req[u]]_vars

\* A trigger whose broadcast was refused was answered 500, and a trigger that
\* arrived after it swept successfully.
C15_Witness ==
    \E t, u \in Trig :
        /\ t < u
        /\ req[t].exception = "Broadcast failed: bandwidth insufficient"
        /\ req[t].response.code = 500
        /\ Succeeded(u)

\* C16: when a required configuration value (signing key, monitored address,
\* collection address, shared secret) is missing or an address is not 34
\* characters starting with 'T', no sweep engine is constructed and every
\* trigger on either entry point, whatever its header, ends with the
\* not-configured failure without any ledger read, build or submission.
C16_InvalidConfigurationRefusesTriggers ==
    (booted /\ ~ ConfigValid) =>
        /\ bot = {}
        /\ lookups = 0
        /\ InLog("bot not initialized")
        /\ \A t \in Trig :
              req[t].pc /= "idle" =>
                  /\ req[t].pc = "done"
                  /\ req[t].response = ErrorResponse(503, "Bot not configured")
                  /\ NoLedgerUse(t)

\* With a monitored address of 33 characters, a webhook trigger and a manual
\* trigger both carried the shared secret and were both refused.
C16_Witness ==
    /\ booted
    /\ env.TARGET_ACCOUNT = ShortTargetAddr
    /\ \E t, u \in Trig :
          /\ req[t].endpoint = "webhook" /\ req[u].endpoint = "manual"
          /\ IsBearerOf(req[t].header, env.WEBHOOK_SECRET)
          /\ IsBearerOf(req[u].header, env.WEBHOOK_SECRET)
          /\ req[t].response.code = 503 /\ req[u].response.code = 503

\* What an entry point did with a request: where its handling stands, what it
\* answered and what it asked of the ledger.
Handling(t) ==
    [pc |-> req[t].pc, response |-> req[t].response,
     reads |-> req[t].reads, builds |-> req[t].builds,
     broadcasts |-> req[t].broadcasts,
     current_balance_sun |-> req[t].current_balance_sun,
     sweep_amount_sun |-> req[t].sweep_amount_sun, result |-> req[t].result]

\* C17: for the same Authorization header, service state, ledger state and
\* ledger answers, the webhook and the manual entry point give the same
\* outcome and make the same ledger calls, whatever body was sent (JSON, not
\* JSON, or none).
C17_EntryPointsEquivalent == Handling(1) = Handling(2)

\* Model sanity: with a JSON body, or none, the two entry points agree.
EntryPointsAgreeOnParsedBody ==
    req[1].body \in {"", "json", "none"} => Handling(1) = Handling(2)

\* C18: a trigger reads the balance at most once, builds at most once and
\* broadcasts at most once; once the ledger has answered (or the broadcast
\* raised) the trigger is over, with no second submission; its outcome is
\* either success with the identifier of an accepted transfer, or failure
\* carrying no identifier and no amount.
C18_NoRetryNoPartialOutcome ==
    \A t \in Trig :
        /\ req[t].reads <= 1 /\ req[t].builds <= 1 /\ req[t].broadcasts <= 1
        /\ req[t].broadcasts <= req[t].builds /\ req[t].builds <= req[t].reads
        /\ Answered(t) =>
              /\ req[t].pc = "done"
              /\ \/ /\ Succeeded(t)
                    /\ Accepted(req[t].result)
                    /\ req[t].result.txid /= ""
                    /\ req[t].response.tx_id = req[t].result.txid
                 \/ /\ req[t].response = ErrorResponse(500, "Internal server error")
                    /\ req[t].exception /= ""
                    /\ req[t].response.tx_id = ""
                    /\ req[t].response.amount_swept_sun = 0

\* A trigger's only submission was refused for lack of bandwidth and the
\* trigger ended in failure after that one broadcast.
C18_Witness ==
    \E t \in Trig :
        /\ req[t].pc = "done"
        /\ req[t].broadcasts = 1 /\ req[t].reads = 1
        /\ SubmissionRefused(req[t].result)
        /\ req[t].result.message = "bandwidth insufficient"
        /\ req[t].response.code = 500

\* The ledger holds what the accepted sweep of trigger t left of the balance
\* t had read: nothing was paid in or taken out since.
LeftBySweepOf(t) ==
    /\ Succeeded(t)
    /\ account.balance = req[t].current_balance_sun - req[t].response.amount_swept_sun

\* C19: when the ledger holds what an accepted sweep left (no deposit and no
\* other sweep since), the next authorized trigger that reads the balance
\* reads at most residual + fee margin, answers no_action and submits nothing.
C19_SecondSweepIsNoAction ==
    [][\A u \in Trig :
          ( /\ req[u].pc = "get_account"
            /\ req[u].current_balance_sun' >= 0
            /\ \E t \in Trig \ {u} : LeftBySweepOf(t) ) =>
              /\ req[u].current_balance_sun' = account.balance
              /\ req[u].current_balance_sun' <= RESIDUAL_AMOUNT_SUN + FEE_MARGIN_SUN
              /\ req[u].sweep_amount_sun' = 0
              /\ req[u].pc' = "done"
              /\ req[u].response' = NoActionResponse
              /\ req[u].builds' = 0 /\ req[u].broadcasts' = 0
              /\ account' = account]_vars

\* A sweep of 47,900,000 was accepted and the trigger that arrived after it
\* read the 2,100,000 it left and took no action.
C19_Witness ==
    \E t, u \in Trig :
        /\ t < u
        /\ LeftBySweepOf(t)
        /\ req[t].response.amount_swept_sun = 47900000
        /\ req[u].pc = "done"
        /\ req[u].current_balance_sun = account.balance
        /\ req[u].response = NoActionResponse
        /\ IsBearerOf(req[u].header, env.WEBHOOK_SECRET)

====
